---- MODULE Spec2Model ----
(***************************************************************************)
(* The SEC EDGAR client of src/app.py: class SecEdgar (a company directory *)
(* built once from company_tickers.json, and filing retrieval from the     *)
(* submissions endpoint) and the interactive __main__ block.               *)
(*                                                                         *)
(* Python text that the code slices, pads, strips or concatenates is a     *)
(* sequence of one-character strings; text the code only compares for      *)
(* equality (titles, tickers, form types, descriptions) is a TLA+ string.  *)
(***************************************************************************)
EXTENDS Integers, Sequences, FiniteSets, TLC

VARIABLES
    remote_feed,    \* JSON body company_tickers.json serves (its values, in order)
    remote_sub,     \* JSON body the submissions endpoint serves
    built,          \* SecEdgar.__init__ has returned
    filejson,       \* self.filejson
    namedict,       \* self.namedict
    tickerdict,     \* self.tickerdict
    call,           \* the last method call on the object: op, arguments, outcome
    pc,             \* position of the __main__ block
    query,          \* __main__: query
    company_info,   \* __main__: company_info
    year,           \* __main__: year
    filing_type,    \* __main__: filing_type (after .lower())
    quarter,        \* __main__: quarter
    requests,       \* history: the GETs issued by the run, in order
    lookups,        \* history: the index consultations of the run, in order
    out             \* history: the lines printed by the run, in order

clientVars == <<built, filejson, namedict, tickerdict>>
mainVars == <<pc, query, company_info, year, filing_type, quarter, requests, lookups, out>>
vars == <<remote_feed, remote_sub, built, filejson, namedict, tickerdict, call,
          pc, query, company_info, year, filing_type, quarter, requests, lookups, out>>

----------------------------------------------------------------------------
(* Bounds of the model *)

\* longest directory feed (number of entries of company_tickers.json)
MaxFeed == 2

\* longest parallel array of filings.recent
MaxFilings == 2

----------------------------------------------------------------------------
(* Python values *)

None == [t |-> "None"]
PyInt(n) == [t |-> "int", v |-> n]
PyStr(s) == [t |-> "str", v |-> s]
PyTuple(x) == [t |-> "tuple", v |-> x]
PyDict(d) == [t |-> "dict", v |-> d]
PyList(l) == [t |-> "list", v |-> l]

\* a JSON string the code never takes apart (a description)
Text(s) == [t |-> "text", v |-> s]

\* how a call ends: a returned value or a propagating exception, with the
\* lines it printed
Return(v, printed) == [t |-> "return", v |-> v, out |-> printed]
Raise(e, printed) == [t |-> "raise", exc |-> e, out |-> printed]

Min(S) == CHOOSE x \in S : \A y \in S : x <= y

Digits == <<"0", "1", "2", "3", "4", "5", "6", "7", "8", "9">>

DigitValue(c) == (CHOOSE i \in 1..10 : Digits[i] = c) - 1

IsDigit(c) == \E i \in 1..10 : Digits[i] = c

RECURSIVE StrNat(_)
StrNat(n) == IF n < 10 THEN <<Digits[n + 1]>>
             ELSE StrNat(n \div 10) \o <<Digits[(n % 10) + 1]>>

\* str(n) of an int
StrInt(n) == IF n < 0 THEN <<"-">> \o StrNat(-n) ELSE StrNat(n)

\* str(x) of an int or a str
Str(x) == IF x.t = "int" THEN StrInt(x.v) ELSE x.v

RECURSIVE Zeros(_)
Zeros(n) == IF n <= 0 THEN <<>> ELSE <<"0">> \o Zeros(n - 1)

\* s.zfill(width): zeros go after a leading sign
Zfill(s, width) ==
    IF Len(s) >= width THEN s
    ELSE IF Len(s) > 0 /\ s[1] \in {"+", "-"}
         THEN <<s[1]>> \o Zeros(width - Len(s)) \o Tail(s)
         ELSE Zeros(width - Len(s)) \o s

\* s.replace(c, "") for a one-character c
Remove(s, c) == SelectSeq(s, LAMBDA x : x # c)

\* s.startswith(p)
StartsWith(s, p) == Len(p) <= Len(s) /\ SubSeq(s, 1, Len(p)) = p

\* s[a:b] for 0 <= a <= b
Slice(s, a, b) == SubSeq(s, a + 1, IF b < Len(s) THEN b ELSE Len(s))

RECURSIVE Strip(_)
Strip(s) == IF s = <<>> THEN s
            ELSE IF s[1] = " " THEN Strip(Tail(s))
            ELSE IF s[Len(s)] = " " THEN Strip(SubSeq(s, 1, Len(s) - 1))
            ELSE s

RECURSIVE DigitsValue(_)
DigitsValue(s) == IF s = <<>> THEN 0
                  ELSE 10 * DigitsValue(SubSeq(s, 1, Len(s) - 1)) + DigitValue(s[Len(s)])

\* int(s) of a str: surrounding blanks, an optional sign, then digits;
\* anything else is a ValueError
IntOfStr(s) ==
    LET b == Strip(s)
        signed == Len(b) > 0 /\ b[1] \in {"+", "-"}
        d == IF signed THEN Tail(b) ELSE b
    IN  IF d # <<>> /\ \A i \in 1..Len(d) : IsDigit(d[i])
        THEN [ok |-> TRUE,
              v |-> IF signed /\ b[1] = "-" THEN -DigitsValue(d) ELSE DigitsValue(d)]
        ELSE [ok |-> FALSE, v |-> 0]

\* int(x) of an int or a str
IntOf(x) == IF x.t = "int" THEN [ok |-> TRUE, v |-> x.v] ELSE IntOfStr(x.v)

UpperCase == <<"A", "B", "C", "D", "E", "F", "G", "H", "I", "J", "K", "L", "M", "N", "O", "P", "Q", "R", "S", "T", "U", "V", "W", "X", "Y", "Z">>
LowerCase == <<"a", "b", "c", "d", "e", "f", "g", "h", "i", "j", "k", "l", "m", "n", "o", "p", "q", "r", "s", "t", "u", "v", "w", "x", "y", "z">>

LowerChar(c) == IF \E i \in 1..26 : UpperCase[i] = c
                THEN LowerCase[CHOOSE i \in 1..26 : UpperCase[i] = c]
                ELSE c

\* s.lower()
Lower(s) == [i \in 1..Len(s) |-> LowerChar(s[i])]

\* d.get(k, default) of a dict
Get(d, k, default) == IF k \in DOMAIN d THEN d[k] ELSE default

\* d[k] = v
Put(d, k, v) == [x \in (DOMAIN d) \cup {k} |-> IF x = k THEN v ELSE d[x]]

EmptyDict == <<>>

----------------------------------------------------------------------------
(* The remote endpoints *)

\* values of company_tickers.json; any of the three fields may be missing
Entries == {
    [title |-> "Alphabet Inc.", cik_str |-> 1652044, ticker |-> "GOOGL"],
    [title |-> "Alphabet Inc.", cik_str |-> 1652044, ticker |-> "GOOG"],
    [title |-> "Apple Inc.", cik_str |-> 320193, ticker |-> "AAPL"],
    [title |-> "Apple Hospitality", cik_str |-> 1234567890, ticker |-> "AAPL"],
    [title |-> "Apple Inc.", ticker |-> "APLE"],
    [cik_str |-> 5, ticker |-> "GOOG"],
    [title |-> "Orphan Corp", cik_str |-> 0],
    [title |-> "Nil Corp", cik_str |-> 0, ticker |-> "NIL"] }

Feeds == UNION {[1..n -> Entries] : n \in 0..MaxFeed}

SampleFeeds == {
    <<[title |-> "Alphabet Inc.", cik_str |-> 1652044, ticker |-> "GOOGL"],
      [title |-> "Alphabet Inc.", cik_str |-> 1652044, ticker |-> "GOOG"],
      [title |-> "Apple Inc.", cik_str |-> 320193, ticker |-> "AAPL"],
      [title |-> "Orphan Corp", cik_str |-> 0]>> }

\* positions of the parallel arrays of filings.recent
K22 == [form |-> "10-K", accessionNumber |-> <<"0", "0", "0", "1", "2", "3", "4", "5", "6", "7", "-", "2", "2", "-", "0", "0", "0", "1", "2", "3">>,
        primaryDocument |-> <<"k", "2", "2", ".", "h", "t", "m">>,
        primaryDocDescription |-> Text("10-K"), filingDate |-> <<"2", "0", "2", "2", "-", "0", "3", "-", "0", "1">>]

K22A == [form |-> "10-K", accessionNumber |-> <<"0", "0", "0", "1", "2", "3", "4", "5", "6", "7", "-", "2", "2", "-", "0", "0", "0", "9", "9", "9">>,
         primaryDocument |-> <<"k", "2", "2", "a", ".", "h", "t", "m">>,
         primaryDocDescription |-> Text("10-K/A"), filingDate |-> <<"2", "0", "2", "2", "-", "1", "1", "-", "2", "0">>]

K21 == [form |-> "10-K", accessionNumber |-> <<"0", "0", "0", "1", "2", "3", "4", "5", "6", "7", "-", "2", "1", "-", "0", "0", "0", "0", "8", "9">>,
        primaryDocument |-> <<"k", "2", "1", ".", "h", "t", "m">>,
        primaryDocDescription |-> None, filingDate |-> <<"2", "0", "2", "1", "-", "0", "3", "-", "0", "1">>]

Q2 == [form |-> "10-Q", accessionNumber |-> <<"0", "0", "0", "1", "2", "3", "4", "5", "6", "7", "-", "2", "2", "-", "0", "0", "0", "4", "5", "6">>,
       primaryDocument |-> <<"q", "2", ".", "h", "t", "m">>,
       primaryDocDescription |-> Text(""), filingDate |-> <<"2", "0", "2", "2", "-", "0", "5", "-", "0", "1">>]

Q2E == [form |-> "10-Q", accessionNumber |-> <<"0", "0", "0", "1", "2", "3", "4", "5", "6", "7", "-", "2", "2", "-", "0", "0", "0", "4", "0", "0">>,
        primaryDocument |-> <<"q", "2", "e", ".", "h", "t", "m">>,
        primaryDocDescription |-> Text("10-Q"), filingDate |-> <<"2", "0", "2", "2", "-", "0", "4", "-", "1", "0">>]

Q3 == [form |-> "10-Q", accessionNumber |-> <<"0", "0", "0", "1", "2", "3", "4", "5", "6", "7", "-", "2", "2", "-", "0", "0", "0", "7", "8", "9">>,
       primaryDocument |-> <<"q", "3", ".", "h", "t", "m">>,
       primaryDocDescription |-> Text("10-Q"), filingDate |-> <<"2", "0", "2", "2", "-", "0", "8", "-", "1", "5">>]

Rows == {K22, K22A, K21, Q2, Q2E, Q3}

ArrayNames == {"form", "accessionNumber", "primaryDocument",
               "primaryDocDescription", "filingDate"}

\* the arrays of filings.recent taken from rows, array `short` cut to k items
Recent(rows, short, k) ==
    [a \in ArrayNames |->
        [i \in 1..(IF a = short THEN k ELSE Len(rows)) |-> rows[i][a]]]

\* the same without the key `absent`
Without(d, absent) == [a \in (DOMAIN d) \ {absent} |-> d[a]]

Body(recent) == [filings |-> [recent |-> recent]]

RowSeqs == UNION {[1..n -> Rows] : n \in 0..MaxFilings}

\* submissions bodies: aligned arrays; primaryDocDescription shorter than the
\* others or missing; filingDate shorter; no filings.recent at all
Submissions ==
    {Body(Recent(rows, "", 0)) : rows \in RowSeqs}
    \cup {Body(Recent(rows, "primaryDocDescription", Len(rows) - 1)) :
              rows \in RowSeqs \ {<<>>}}
    \cup {Body(Without(Recent(rows, "", 0), "primaryDocDescription")) :
              rows \in RowSeqs \ {<<>>}}
    \cup {Body(Recent(rows, "filingDate", Len(rows) - 1)) : rows \in RowSeqs \ {<<>>}}
    \cup {EmptyDict, [filings |-> EmptyDict]}

SampleSubmissions == {Body(Recent(<<K22, Q2>>, "", 0)),
                      Body(Recent(<<Q3, K21, Q2E>>, "", 0))}

\* what one GET can come back with: a 200 with the body, an HTTP error
\* status, or no response at all (requests.get raises)
Responses(body) == {
    [kind |-> "response", status |-> 200, body |-> body],
    [kind |-> "response", status |-> 404],
    [kind |-> "error", exc |-> "ConnectionError"] }

----------------------------------------------------------------------------
(* class SecEdgar *)

\* the exceptions `except requests.RequestException` catches
RequestException == {"RequestException", "HTTPError", "ConnectionError", "Timeout"}

\* what requests.get / raise_for_status raise for a response ("" for nothing)
RaisedBy(response) ==
    IF response.kind = "error" THEN response.exc
    ELSE IF 400 <= response.status /\ response.status < 600 THEN "HTTPError"
    ELSE ""

\* faulty variant: the handler names requests.ConnectionError instead of the base class
fetch_json_data_ConnectionErrorOnly(response) ==
    LET exc == RaisedBy(response)
    IN  IF exc = "" THEN Return(PyDict(response.body), <<>>)
        ELSE IF exc = "ConnectionError"
             THEN Return(None, <<"Error fetching data">>)
             ELSE Raise(exc, <<>>)

fetch_json_data(response) ==
    LET exc == RaisedBy(response)
    IN  IF exc = "" THEN Return(PyDict(response.body), <<>>)
        ELSE IF exc \in RequestException
             THEN Return(None, <<"Error fetching data">>)
             ELSE Raise(exc, <<>>)

\* truth value of what fetch_json_data returned: None and {} are false
Truthy(x) == x.t # "None" /\ DOMAIN x.v # {}

\* width the CIK is padded to
CikWidth == 10

HasRequiredFields(item) ==
    "title" \in DOMAIN item /\ "cik_str" \in DOMAIN item /\ "ticker" \in DOMAIN item

\* faulty variant: the CIK is stored without zfill
CompanyRecordUnpadded(item) ==
    <<StrInt(item.cik_str), item.title, item.ticker>>

CompanyRecord(item) ==
    <<Zfill(StrInt(item.cik_str), CikWidth), item.title, item.ticker>>

\* faulty variant: each index checks only the fields it reads for its key
RECURSIVE cik_json_to_dict_PerIndexCheck(_, _, _)
cik_json_to_dict_PerIndexCheck(items, i, dicts) ==
    IF i > Len(items) THEN dicts
    ELSE LET item == items[i]
             cik == IF "cik_str" \in DOMAIN item
                    THEN Zfill(StrInt(item.cik_str), CikWidth) ELSE <<>>
             name == IF "title" \in DOMAIN item THEN item.title ELSE ""
             ticker == IF "ticker" \in DOMAIN item THEN item.ticker ELSE ""
         IN  cik_json_to_dict_PerIndexCheck(items, i + 1,
                 [namedict |-> IF "title" \in DOMAIN item
                               THEN Put(dicts.namedict, name, <<cik, name, ticker>>)
                               ELSE dicts.namedict,
                  tickerdict |-> IF "ticker" \in DOMAIN item
                                 THEN Put(dicts.tickerdict, ticker, <<cik, name, ticker>>)
                                 ELSE dicts.tickerdict])

\* the loop of cik_json_to_dict from item i on, over the dictionaries so far
RECURSIVE cik_json_to_dict(_, _, _)
cik_json_to_dict(items, i, dicts) ==
    IF i > Len(items) THEN dicts
    ELSE IF HasRequiredFields(items[i])
         THEN cik_json_to_dict(items, i + 1,
                  [namedict |-> Put(dicts.namedict, items[i].title,
                                    CompanyRecord(items[i])),
                   tickerdict |-> Put(dicts.tickerdict, items[i].ticker,
                                      CompanyRecord(items[i]))])
         ELSE cik_json_to_dict(items, i + 1, dicts)

name_to_cik(company_name) ==
    IF company_name \in DOMAIN namedict THEN PyTuple(namedict[company_name]) ELSE None

ticker_to_cik(ticker) ==
    IF ticker \in DOMAIN tickerdict THEN PyTuple(tickerdict[ticker]) ELSE None

ArchivePrefix == <<"h", "t", "t", "p", "s", ":", "/", "/", "w", "w", "w", ".", "s", "e", "c", ".", "g", "o", "v", "/", "A", "r", "c", "h", "i", "v", "e", "s", "/", "e", "d", "g", "a", "r", "/", "d", "a", "t", "a", "/">>

NoDescription == "No description available"

\* faulty variant: the accession number goes into the path as it is
document_url_KeepsHyphens(cik, accession_number, primary_doc) ==
    ArchivePrefix \o cik \o <<"/">> \o accession_number \o <<"/">> \o primary_doc

document_url(cik, accession_number, primary_doc) ==
    ArchivePrefix \o cik \o <<"/">> \o Remove(accession_number, "-")
        \o <<"/">> \o primary_doc

\* truth value of a description: None and "" are false
HasDescription(doc_desc) == doc_desc.t # "None" /\ doc_desc.v # ""

FilingRecord(cik, form_type, accession_number, primary_doc, doc_desc, date) ==
    [form_type |-> form_type,
     accession_number |-> accession_number,
     filing_date |-> date,
     document_url |-> document_url(cik, accession_number, primary_doc),
     description |-> IF HasDescription(doc_desc) THEN doc_desc.v ELSE NoDescription]

\* number of tuples zip() yields: the length of the shortest list
ZipLen(lists) == Min({Len(lists[a]) : a \in DOMAIN lists})

\* the loop of get_filings from position i on, over the results so far;
\* lists holds the five lists handed to zip()
RECURSIVE FilterFilings(_, _, _, _, _)
FilterFilings(cik, form_types, lists, i, results) ==
    IF i > ZipLen(lists) THEN results
    ELSE FilterFilings(cik, form_types, lists, i + 1,
             IF lists.form_list[i] \in form_types
             THEN Append(results,
                      FilingRecord(cik, lists.form_list[i], lists.accession_list[i],
                          lists.primary_doc_list[i], lists.doc_desc_list[i],
                          lists.filing_dates[i]))
             ELSE results)

get_filings(cik, form_types, response) ==
    LET submissions == fetch_json_data(response)
    IN  IF submissions.t = "raise" THEN submissions
        ELSE IF ~Truthy(submissions.v) THEN Return(PyList(<<>>), submissions.out)
        ELSE LET filings == Get(Get(submissions.v.v, "filings", EmptyDict),
                                "recent", EmptyDict)
                 lists == [form_list |-> Get(filings, "form", <<>>),
                           accession_list |-> Get(filings, "accessionNumber", <<>>),
                           primary_doc_list |-> Get(filings, "primaryDocument", <<>>),
                           doc_desc_list |-> Get(filings, "primaryDocDescription", <<>>),
                           filing_dates |-> Get(filings, "filingDate", <<>>)]
             IN  Return(PyList(FilterFilings(cik, form_types, lists, 1, <<>>)),
                        submissions.out)

\* the loop of annual_filing from filing i on
RECURSIVE AnnualScan(_, _, _, _)
AnnualScan(filings, i, yr, printed) ==
    IF i > Len(filings)
    THEN Return(None, Append(printed, "No 10-K found"))
    ELSE IF StartsWith(filings[i].filing_date, Str(yr))
         THEN Return(PyDict(filings[i]), printed)
         ELSE AnnualScan(filings, i + 1, yr, printed)

\* faulty variant: the loop keeps going and returns the last match
annual_filing_LastMatch(cik, yr, response) ==
    LET filings == get_filings(cik, {"10-K"}, response)
    IN  IF filings.t = "raise" THEN filings
        ELSE LET l == filings.v.v
                 m == {i \in 1..Len(l) : StartsWith(l[i].filing_date, Str(yr))}
             IN  IF m = {} THEN Return(None, Append(filings.out, "No 10-K found"))
                 ELSE Return(PyDict(l[CHOOSE i \in m : \A j \in m : j <= i]),
                             filings.out)

annual_filing(cik, yr, response) ==
    LET filings == get_filings(cik, {"10-K"}, response)
    IN  IF filings.t = "raise" THEN filings
        ELSE AnnualScan(filings.v.v, 1, yr, filings.out)

\* the loop of quarterly_filing from filing i on; int() of the month is
\* evaluated for every filing, int(quarter) only once the year has matched
RECURSIVE QuarterlyScan(_, _, _, _, _)
QuarterlyScan(filings, i, yr, qtr, printed) ==
    IF i > Len(filings)
    THEN Return(None, Append(printed, "No 10-Q found"))
    ELSE LET filing_year == Slice(filings[i].filing_date, 0, 4)
             filing_month == IntOfStr(Slice(filings[i].filing_date, 5, 7))
         IN  IF ~filing_month.ok THEN Raise("ValueError", printed)
             ELSE IF Str(yr) # filing_year
                  THEN QuarterlyScan(filings, i + 1, yr, qtr, printed)
             ELSE IF ~IntOf(qtr).ok THEN Raise("ValueError", printed)
             ELSE IF (filing_month.v - 1) \div 3 + 1 = IntOf(qtr).v
                  THEN Return(PyDict(filings[i]), printed)
                  ELSE QuarterlyScan(filings, i + 1, yr, qtr, printed)

quarterly_filing(cik, yr, qtr, response) ==
    LET filings == get_filings(cik, {"10-Q"}, response)
    IN  IF filings.t = "raise" THEN filings
        ELSE QuarterlyScan(filings.v.v, 1, yr, qtr, filings.out)

----------------------------------------------------------------------------
(* Calls on a SecEdgar object *)

Call(op, name, cik, form_types, yr, qtr, response, ret) ==
    [op |-> op, name |-> name, cik |-> cik, form_types |-> form_types,
     year |-> yr, quarter |-> qtr, response |-> response, ret |-> ret]

NoResponse == [kind |-> "none"]

NoCall == Call("", "", <<>>, {}, None, None, NoResponse, Return(None, <<>>))

\* arguments the calls are made with
Queries == {"Alphabet Inc.", "GOOG", "Unknown"}

Ciks == {<<"0", "0", "0", "0", "3", "2", "0", "1", "9", "3">>}

FormTypes == {{"10-K"}, {"10-K", "10-Q"}}

Years == {PyInt(2022), PyStr(<<"2", "0", "2", "1">>)}

Quarters == {PyInt(2), PyStr(<<"3">>), PyStr(<<"Q", "2">>)}

\* __init__: the fields after the constructor has run against `response`
SecEdgarInit(response) ==
    LET fetched == fetch_json_data(response)
        dicts == IF fetched.t = "return" /\ Truthy(fetched.v)
                 THEN cik_json_to_dict(fetched.v.v, 1,
                          [namedict |-> EmptyDict, tickerdict |-> EmptyDict])
                 ELSE [namedict |-> EmptyDict, tickerdict |-> EmptyDict]
    IN  [built |-> fetched.t = "return",
         filejson |-> IF fetched.t = "return" THEN fetched.v ELSE None,
         namedict |-> dicts.namedict,
         tickerdict |-> dicts.tickerdict,
         ret |-> IF fetched.t = "return" THEN Return(None, fetched.out) ELSE fetched]

Construct ==
    /\ pc = "lib" /\ ~built
    /\ \E response \in Responses(remote_feed) :
         LET obj == SecEdgarInit(response)
         IN  /\ built' = obj.built
             /\ filejson' = obj.filejson
             /\ namedict' = obj.namedict
             /\ tickerdict' = obj.tickerdict
             /\ call' = Call("__init__", "", <<>>, {}, None, None, response, obj.ret)
    /\ UNCHANGED <<remote_feed, remote_sub, mainVars>>

NameToCik ==
    /\ pc = "lib" /\ built
    /\ \E q \in Queries :
         call' = Call("name_to_cik", q, <<>>, {}, None, None, NoResponse,
                      Return(name_to_cik(q), <<>>))
    /\ UNCHANGED <<remote_feed, remote_sub, clientVars, mainVars>>

TickerToCik ==
    /\ pc = "lib" /\ built
    /\ \E q \in Queries :
         call' = Call("ticker_to_cik", q, <<>>, {}, None, None, NoResponse,
                      Return(ticker_to_cik(q), <<>>))
    /\ UNCHANGED <<remote_feed, remote_sub, clientVars, mainVars>>

\* faulty variant: get_filings keeps what it fetched in self.filejson
GetFilingsCachesPayload ==
    /\ pc = "lib" /\ built
    /\ \E cik \in Ciks, form_types \in FormTypes, response \in Responses(remote_sub) :
         /\ call' = Call("get_filings", "", cik, form_types, None, None, response,
                         get_filings(cik, form_types, response))
         /\ filejson' = fetch_json_data(response).v
    /\ UNCHANGED <<remote_feed, remote_sub, built, namedict, tickerdict, mainVars>>

GetFilings ==
    /\ pc = "lib" /\ built
    /\ \E cik \in Ciks, form_types \in FormTypes, response \in Responses(remote_sub) :
         call' = Call("get_filings", "", cik, form_types, None, None, response,
                      get_filings(cik, form_types, response))
    /\ UNCHANGED <<remote_feed, remote_sub, clientVars, mainVars>>

AnnualFiling ==
    /\ pc = "lib" /\ built
    /\ \E cik \in Ciks, yr \in Years, response \in Responses(remote_sub) :
         call' = Call("annual_filing", "", cik, {}, yr, None, response,
                      annual_filing(cik, yr, response))
    /\ UNCHANGED <<remote_feed, remote_sub, clientVars, mainVars>>

QuarterlyFiling ==
    /\ pc = "lib" /\ built
    /\ \E cik \in Ciks, yr \in Years, qtr \in Quarters,
          response \in Responses(remote_sub) :
         call' = Call("quarterly_filing", "", cik, {}, yr, qtr, response,
                      quarterly_filing(cik, yr, qtr, response))
    /\ UNCHANGED <<remote_feed, remote_sub, clientVars, mainVars>>

----------------------------------------------------------------------------
(* The __main__ block *)

\* what the user may type at the prompts
YearInputs == {<<"2", "0", "2", "2">>, <<"2", "0", "2", "1">>, <<>>}

FilingTypeInputs == {<<"a", "n", "n", "u", "a", "l">>, <<"A", "n", "n", "u", "a", "l">>, <<"q", "u", "a", "r", "t", "e", "r", "l", "y">>, <<"Q", "U", "A", "R", "T", "E", "R", "L", "Y">>, <<"m", "o", "n", "t", "h", "l", "y">>}

QuarterInputs == {<<"2">>, <<"3">>, <<"Q", "2">>, <<" ", "2", " ">>}

MainConstruct ==
    /\ pc = "start"
    /\ \E response \in Responses(remote_feed) :
         LET obj == SecEdgarInit(response)
         IN  /\ built' = obj.built
             /\ filejson' = obj.filejson
             /\ namedict' = obj.namedict
             /\ tickerdict' = obj.tickerdict
             /\ requests' = Append(requests, "company_tickers")
             /\ out' = out \o obj.ret.out
             /\ pc' = IF obj.built THEN "query" ELSE "crashed"
    /\ UNCHANGED <<remote_feed, remote_sub, call, query, company_info, year,
                   filing_type, quarter, lookups>>

MainQuery ==
    /\ pc = "query"
    /\ \E q \in Queries :
         LET by_name == name_to_cik(q)
             info == IF by_name.t = "None" THEN ticker_to_cik(q) ELSE by_name
         IN  /\ query' = q
             /\ company_info' = info
             /\ lookups' = lookups \o (IF by_name.t = "None"
                                       THEN <<"namedict", "tickerdict">>
                                       ELSE <<"namedict">>)
             /\ IF info.t = "None"
                THEN /\ out' = Append(out, "No company found")
                     /\ pc' = "done"
                ELSE /\ out' = out
                     /\ pc' = "year"
    /\ UNCHANGED <<remote_feed, remote_sub, clientVars, call, year, filing_type,
                   quarter, requests>>

MainYearType ==
    /\ pc = "year"
    /\ \E y \in YearInputs, ft \in FilingTypeInputs :
         /\ year' = PyStr(y)
         /\ filing_type' = Lower(ft)
         /\ IF Lower(ft) = <<"a", "n", "n", "u", "a", "l">>
            THEN pc' = "annual" /\ out' = out
            ELSE IF Lower(ft) = <<"q", "u", "a", "r", "t", "e", "r", "l", "y">>
            THEN pc' = "quarter" /\ out' = out
            ELSE pc' = "done" /\ out' = Append(out, "Invalid filing type")
    /\ UNCHANGED <<remote_feed, remote_sub, clientVars, call, query, company_info,
                   quarter, requests, lookups>>

MainAnnual ==
    /\ pc = "annual"
    /\ \E response \in Responses(remote_sub) :
         LET found == annual_filing(company_info.v[1], year, response)
         IN  /\ requests' = Append(requests, "submissions")
             /\ IF found.t = "raise"
                THEN pc' = "crashed" /\ out' = out \o found.out
                ELSE /\ pc' = "done"
                     /\ out' = out \o found.out \o
                               (IF found.v.t = "None" THEN <<"No 10-K found">>
                                ELSE <<"Filing details">>)
    /\ UNCHANGED <<remote_feed, remote_sub, clientVars, call, query, company_info,
                   year, filing_type, quarter, lookups>>

MainQuarterInput ==
    /\ pc = "quarter"
    /\ \E q \in QuarterInputs :
         quarter' = PyStr(q)
    /\ pc' = "quarterly"
    /\ UNCHANGED <<remote_feed, remote_sub, clientVars, call, query, company_info,
                   year, filing_type, requests, lookups, out>>

MainQuarterly ==
    /\ pc = "quarterly"
    /\ \E response \in Responses(remote_sub) :
         LET found == quarterly_filing(company_info.v[1], year, quarter, response)
         IN  /\ requests' = Append(requests, "submissions")
             /\ IF found.t = "raise"
                THEN pc' = "crashed" /\ out' = out \o found.out
                ELSE /\ pc' = "done"
                     /\ out' = out \o found.out \o
                               (IF found.v.t = "None" THEN <<"No 10-Q found">>
                                ELSE <<"Filing details">>)
    /\ UNCHANGED <<remote_feed, remote_sub, clientVars, call, query, company_info,
                   year, filing_type, quarter, lookups>>

----------------------------------------------------------------------------
(* Specifications *)

\* before SecEdgar(...) is called
Fresh ==
    /\ built = FALSE
    /\ filejson = None
    /\ namedict = EmptyDict
    /\ tickerdict = EmptyDict
    /\ call = NoCall
    /\ query = ""
    /\ company_info = None
    /\ year = None
    /\ filing_type = <<>>
    /\ quarter = None
    /\ requests = <<>>
    /\ lookups = <<>>
    /\ out = <<>>

\* the client used as a library, over every submissions body
Init ==
    /\ remote_feed \in SampleFeeds
    /\ remote_sub \in Submissions
    /\ pc = "lib"
    /\ Fresh

Next ==
    \/ Construct
    \/ NameToCik
    \/ TickerToCik
    \/ GetFilings
    \/ AnnualFiling
    \/ QuarterlyFiling

Spec == Init /\ [][Next]_vars

\* the directory, over every feed
InitDirectory ==
    /\ remote_feed \in Feeds
    /\ remote_sub \in SampleSubmissions
    /\ pc = "lib"
    /\ Fresh

NextDirectory ==
    \/ Construct
    \/ NameToCik
    \/ TickerToCik

SpecDirectory == InitDirectory /\ [][NextDirectory]_vars

\* one run of the interactive program
InitMain ==
    /\ remote_feed \in SampleFeeds
    /\ remote_sub \in SampleSubmissions
    /\ pc = "start"
    /\ Fresh

NextMain ==
    \/ MainConstruct
    \/ MainQuery
    \/ MainYearType
    \/ MainAnnual
    \/ MainQuarterInput
    \/ MainQuarterly

SpecMain == InitMain /\ [][NextMain]_vars

----------------------------------------------------------------------------
(* The claims *)

\* the upstream arrays, read off the served body
RecentOf(body) ==
    IF "filings" \in DOMAIN body /\ "recent" \in DOMAIN body.filings
    THEN body.filings.recent ELSE EmptyDict

ArrayOf(body, a) == IF a \in DOMAIN RecentOf(body) THEN RecentOf(body)[a] ELSE <<>>

\* length of the shortest of the five parallel arrays
Shortest(body) ==
    CHOOSE n \in 0..(MaxFilings + 1) :
        /\ \A a \in ArrayNames : Len(ArrayOf(body, a)) >= n
        /\ \E a \in ArrayNames : Len(ArrayOf(body, a)) = n

\* positions below the shortest length whose form is one of `forms`
Matching(body, forms) ==
    {i \in 1..Shortest(body) : ArrayOf(body, "form")[i] \in forms}

\* the k-th smallest member of a set of positions
Nth(P, k) == CHOOSE i \in P : Cardinality({j \in P : j <= i}) = k

RECURSIVE NoHyphens(_)
NoHyphens(s) == IF s = <<>> THEN <<>>
                ELSE IF s[1] = "-" THEN NoHyphens(Tail(s))
                ELSE <<s[1]>> \o NoHyphens(Tail(s))

\* a GET that came back with a 200 and a body
Fetched(response) == response.kind = "response" /\ response.status = 200

\* a GET that came back with an HTTP error status, or not at all
FetchFailed(response) ==
    \/ response.kind = "error"
    \/ response.kind = "response" /\ response.status >= 400

Values(d) == {d[k] : k \in DOMAIN d}

Complete(entry) == {"title", "cik_str", "ticker"} \subseteq DOMAIN entry

\* s is the decimal numeral of n, zero-padded on the left up to 10 characters
PaddedNumeral(s, n) ==
    /\ Len(s) >= 10
    /\ \A i \in 1..Len(s) : IsDigit(s[i])
    /\ DigitsValue(s) = n
    /\ Len(s) > 10 => s[1] # "0"

\* C1: get_filings on a fetched body returns one record per position below
\* the shortest array whose form is in form_types, in position order, each
\* with that position's form, accession number and date and the archive URL
\* built from the cik, the hyphen-free accession number and the document.
C1_GetFilingsExact ==
    (call.op = "get_filings" /\ Fetched(call.response)) =>
        /\ call.ret.t = "return"
        /\ call.ret.v.t = "list"
        /\ LET res == call.ret.v.v
               P == Matching(remote_sub, call.form_types)
           IN  /\ Len(res) = Cardinality(P)
               /\ \A k \in 1..Len(res) :
                    LET i == Nth(P, k)
                    IN  /\ res[k].form_type = ArrayOf(remote_sub, "form")[i]
                        /\ res[k].accession_number =
                               ArrayOf(remote_sub, "accessionNumber")[i]
                        /\ res[k].filing_date = ArrayOf(remote_sub, "filingDate")[i]
                        /\ res[k].document_url =
                               ArchivePrefix \o call.cik \o <<"/">>
                               \o NoHyphens(ArrayOf(remote_sub, "accessionNumber")[i])
                               \o <<"/">> \o ArrayOf(remote_sub, "primaryDocument")[i]

\* a fetched get_filings call that kept one position and dropped another
C1_Witness ==
    /\ call.op = "get_filings" /\ Fetched(call.response)
    /\ call.ret.t = "return"
    /\ Len(call.ret.v.v) = 1
    /\ Shortest(remote_sub) = 2
    /\ call.ret.v.v[1].accession_number = ArrayOf(remote_sub, "accessionNumber")[2]
    /\ \E j \in 1..Len(call.ret.v.v[1].accession_number) :
           call.ret.v.v[1].accession_number[j] = "-"

\* C2: after a build from a fetched feed, every complete entry's title and
\* ticker are found, and every stored cik is the zero-padded numeral of the
\* cik_str of a complete entry with that title and ticker.
C2_CompleteEntriesIndexed ==
    (built /\ filejson # None) =>
        /\ \A i \in 1..Len(remote_feed) :
             Complete(remote_feed[i]) =>
                 /\ name_to_cik(remote_feed[i].title) # None
                 /\ ticker_to_cik(remote_feed[i].ticker) # None
        /\ \A rec \in Values(namedict) \cup Values(tickerdict) :
             \E i \in 1..Len(remote_feed) :
                 /\ Complete(remote_feed[i])
                 /\ remote_feed[i].title = rec[2]
                 /\ remote_feed[i].ticker = rec[3]
                 /\ PaddedNumeral(rec[1], remote_feed[i].cik_str)

\* a built directory holding a padded cik and a cik that needed no padding
C2_Witness ==
    /\ built /\ filejson # None
    /\ \E r1, r2 \in Values(namedict) : r1[1][1] = "0" /\ r2[1][1] # "0"
    /\ \E r \in Values(tickerdict) : r[1][1] = "0"

\* C3: after a build the two indices hold the same set of records, also when
\* entries share a title or a ticker.
C3_SameRecordSets ==
    built => Values(namedict) = Values(tickerdict)

\* C4: a failed fetch never raises: a failed directory fetch leaves a built
\* client with empty indices where every lookup is None; a failed submissions
\* fetch makes get_filings return [] and annual/quarterly_filing return None.
C4_FailedFetchIsSoft ==
    /\ FetchFailed(call.response) =>
         /\ call.ret.t = "return"
         /\ call.op = "__init__" =>
                built /\ namedict = EmptyDict /\ tickerdict = EmptyDict
         /\ call.op = "get_filings" => call.ret.v = PyList(<<>>)
         /\ call.op \in {"annual_filing", "quarterly_filing"} => call.ret.v = None
    /\ (built /\ filejson = None) =>
         /\ \A q \in Queries : name_to_cik(q) = None /\ ticker_to_cik(q) = None
         /\ call.op \in {"name_to_cik", "ticker_to_cik"} => call.ret.v = None

\* a client built from a failed directory fetch whose submissions fetch got a 404
C4_Witness ==
    /\ built /\ filejson = None
    /\ call.op = "quarterly_filing"
    /\ call.response.kind = "response" /\ call.response.status = 404
    /\ Matching(remote_sub, {"10-Q"}) # {}

\* the 10-K positions a fetched body yields, none when the fetch failed
Positions(forms) ==
    IF Fetched(call.response) THEN Matching(remote_sub, forms) ELSE {}

\* p is a prefix of s
Prefix(p, s) == \E n \in 0..Len(s) : SubSeq(s, 1, n) = p

\* C5: annual_filing returns the first 10-K record, in upstream order, whose
\* filing date starts with str(year), and None exactly when there is none.
C5_AnnualFirstMatch ==
    call.op = "annual_filing" =>
        LET M == {i \in Positions({"10-K"}) :
                     Prefix(Str(call.year), ArrayOf(remote_sub, "filingDate")[i])}
        IN  /\ call.ret.t = "return"
            /\ M = {} <=> call.ret.v = None
            /\ M # {} =>
                 /\ call.ret.v.t = "dict"
                 /\ call.ret.v.v.form_type = "10-K"
                 /\ call.ret.v.v.accession_number =
                        ArrayOf(remote_sub, "accessionNumber")[Min(M)]
                 /\ call.ret.v.v.filing_date =
                        ArrayOf(remote_sub, "filingDate")[Min(M)]
                 /\ \E k \in 1..Cardinality(Positions({"10-K"})) :
                        call.ret.v.v =
                            get_filings(call.cik, {"10-K"}, call.response).v.v[k]

\* an annual_filing call with two different 10-K filings of the year to choose from
C5_Witness ==
    /\ call.op = "annual_filing" /\ Fetched(call.response)
    /\ call.ret.t = "return" /\ call.ret.v.t = "dict"
    /\ \E i, j \in Positions({"10-K"}) :
         /\ i < j
         /\ Prefix(Str(call.year), ArrayOf(remote_sub, "filingDate")[i])
         /\ Prefix(Str(call.year), ArrayOf(remote_sub, "filingDate")[j])
         /\ ArrayOf(remote_sub, "accessionNumber")[i] #
                ArrayOf(remote_sub, "accessionNumber")[j]

\* the month digits (characters 6-7) of an ISO date as a number
MonthOf(date) == DigitsValue(<<date[6], date[7]>>)

\* C6: quarterly_filing returns, for every year and every requested quarter
\* value, the first 10-Q record whose year is str(year) and whose quarter
\* ((month-1) div 3)+1 is the requested one, or None when there is none.
C6_QuarterlyFirstMatchOrNone ==
    call.op = "quarterly_filing" =>
        /\ call.ret.t = "return"
        /\ LET M == {i \in Positions({"10-Q"}) :
                       /\ SubSeq(ArrayOf(remote_sub, "filingDate")[i], 1, 4) =
                              Str(call.year)
                       /\ IntOf(call.quarter).ok
                       /\ (MonthOf(ArrayOf(remote_sub, "filingDate")[i]) - 1) \div 3 + 1
                              = IntOf(call.quarter).v}
           IN  /\ M = {} => call.ret.v = None
               /\ M # {} =>
                    /\ call.ret.v.t = "dict"
                    /\ call.ret.v.v.accession_number =
                           ArrayOf(remote_sub, "accessionNumber")[Min(M)]

\* C7: incomplete entries contribute nothing: every key of the name index is
\* the title, and every key of the ticker index the ticker, of a complete
\* entry, and a feed of incomplete entries only leaves both indices empty.
C7_IncompleteEntriesSkipped ==
    built =>
        /\ \A k \in DOMAIN namedict :
             \E i \in 1..Len(remote_feed) :
                 Complete(remote_feed[i]) /\ remote_feed[i].title = k
        /\ \A k \in DOMAIN tickerdict :
             \E i \in 1..Len(remote_feed) :
                 Complete(remote_feed[i]) /\ remote_feed[i].ticker = k
        /\ (\A i \in 1..Len(remote_feed) : ~Complete(remote_feed[i])) =>
               (namedict = EmptyDict /\ tickerdict = EmptyDict)

\* a directory built from a fetched feed with a complete entry and an
\* incomplete one whose title is in no index
C7_Witness ==
    /\ built /\ filejson # None
    /\ namedict # EmptyDict
    /\ \E i \in 1..Len(remote_feed) :
         /\ ~Complete(remote_feed[i])
         /\ "title" \in DOMAIN remote_feed[i]
         /\ remote_feed[i].title \notin DOMAIN namedict

\* C8: every position whose form is in form_types is emitted, with the
\* upstream description when there is one and "No description available"
\* when it is missing (absent, null or empty); a missing description never
\* drops a filing.  Stated for bodies whose other four arrays are aligned.
C8_MissingDescriptionNeverDrops ==
    (/\ call.op = "get_filings" /\ Fetched(call.response)
     /\ \A a \in ArrayNames \ {"primaryDocDescription"} :
            Len(ArrayOf(remote_sub, a)) = Len(ArrayOf(remote_sub, "form"))) =>
        LET descs == ArrayOf(remote_sub, "primaryDocDescription")
            P == {i \in 1..Len(ArrayOf(remote_sub, "form")) :
                     ArrayOf(remote_sub, "form")[i] \in call.form_types}
        IN  /\ call.ret.t = "return"
            /\ Len(call.ret.v.v) = Cardinality(P)
            /\ \A k \in 1..Cardinality(P) :
                 call.ret.v.v[k].description =
                     IF /\ Nth(P, k) <= Len(descs)
                        /\ descs[Nth(P, k)].t = "text"
                        /\ descs[Nth(P, k)].v # ""
                     THEN descs[Nth(P, k)].v
                     ELSE "No description available"

\* C9: once the constructor has returned, no call changes the indices or the
\* cached directory payload (and the client stays built).
C9_DirectoryReadOnly ==
    [][built => (/\ built'
                 /\ filejson' = filejson
                 /\ namedict' = namedict
                 /\ tickerdict' = tickerdict)]_vars

\* a filled directory after a filing retrieval that found a record
C9_Witness ==
    /\ built /\ namedict # EmptyDict /\ tickerdict # EmptyDict
    /\ call.op = "get_filings" /\ Fetched(call.response)
    /\ Len(call.ret.v.v) = 2

Count(seq, x) == Cardinality({i \in 1..Len(seq) : seq[i] = x})

\* C10: every run handles one query and ends normally; the directory GET is
\* issued once and first; at most one submissions GET follows, only for a
\* resolved company (name index first, ticker index only after a miss) and a
\* filing type of annual or quarterly; an unresolved query or an invalid
\* filing type ends the run with a message and no submissions request.
C10_OneQueryPerRun ==
    /\ pc # "crashed"
    /\ pc # "start" => (requests # <<>> /\ requests[1] = "company_tickers")
    /\ pc = "start" => (requests = <<>> /\ lookups = <<>> /\ out = <<>>)
    /\ Count(requests, "company_tickers") <= 1
    /\ Count(requests, "submissions") <= 1
    /\ Count(requests, "submissions") = 1 =>
         /\ company_info # None
         /\ filing_type \in {<<"a", "n", "n", "u", "a", "l">>, <<"q", "u", "a", "r", "t", "e", "r", "l", "y">>}
    /\ lookups \in {<<>>, <<"namedict">>, <<"namedict", "tickerdict">>}
    /\ lookups = <<"namedict", "tickerdict">> => query \notin DOMAIN namedict
    /\ (pc = "done" /\ company_info = None) =>
         (requests = <<"company_tickers">> /\ out[Len(out)] = "No company found")
    /\ (pc = "done" /\ company_info # None
            /\ filing_type \notin {<<"a", "n", "n", "u", "a", "l">>, <<"q", "u", "a", "r", "t", "e", "r", "l", "y">>}) =>
         (requests = <<"company_tickers">> /\ out[Len(out)] = "Invalid filing type")

====
